---- MODULE Spec2Model ----
(***************************************************************************)
(* Model of the minesweeper board of src/src/main.rs: Board::new (mine     *)
(* placement and neighbour numbering), Board::update (pointer -> cell      *)
(* mapping and the reveal rules), Board::reveal_empty (BFS flood fill) and *)
(* Board::reveal_all.                                                      *)
(*                                                                         *)
(* Indices are 0-based as in the source: state[row][col], row in           *)
(* 0..y_cells-1, col in 0..x_cells-1.  The layout arithmetic is f32 as in  *)
(* the source: every sum, product and quotient is rounded to the nearest   *)
(* f32 (24-bit significand, ties to even) before it is used.  Pointer      *)
(* positions are whole pixels.                                             *)
(***************************************************************************)
EXTENDS Integers, Sequences, FiniteSets

(* ---------------- bounds of the model ---------------- *)
MaxCols == 3
MaxRows == 3
MaxCells == 6
MaxMines == 2
MaxClicks == 2
ScreenWidth == 12
\* the dense square boards of SpecNew
NewDim == 4
NewMines == 9

(* ---------------- program constants (main) ---------------- *)
gap == 1
padding == 2

VARIABLES
    x_cells,      \* Board.x_cells: number of columns
    y_cells,      \* Board.y_cells: number of rows
    tile_width,   \* Board.tile_width, an f32: [m, e] stands for m * 2^e
    state,        \* Board.state: state[row][col] = Cell
    screen_width, \* what screen_width() returns when Board::new runs
    mines,        \* the `mines` argument of Board::new
    sampled,      \* the indices index::sample returned
    pending,      \* sampled indices the mine loop has not processed yet
    pc,           \* "new" | "play" | "bfs" | "panic"
    queue,        \* reveal_empty: the VecDeque
    visited,      \* reveal_empty: the HashSet
    last,         \* what the last update call saw and did
    shown,        \* what draw paints under the pointer of the last update call
    prev,         \* Board.state when the last update call started
    clicks        \* number of update calls so far

vars == <<x_cells, y_cells, tile_width, state, screen_width, mines, sampled,
          pending, pc, queue, visited, last, shown, prev, clicks>>

(* ---------------- f32 arithmetic ---------------- *)

(* A non-negative f32 is [m, e], the value m * 2^e, with m = 0 or          *)
(* 2^23 <= m < 2^24.  Layout values are far from the subnormal and the     *)
(* overflow range, so e is not bounded here.                               *)
F32Half == 2 ^ 23
F32Full == 2 ^ 24
F32Zero == [m |-> 0, e |-> 0]

RECURSIVE F32Normal(_, _)
F32Normal(n, e) ==
    IF n >= F32Half THEN [m |-> n, e |-> e]
    ELSE IF n < 2 ^ 12 THEN F32Normal(n * 2 ^ 12, e - 12)
    ELSE IF n < 2 ^ 18 THEN F32Normal(n * 2 ^ 6, e - 6)
    ELSE IF n < 2 ^ 21 THEN F32Normal(n * 2 ^ 3, e - 3)
    ELSE F32Normal(n * 2, e - 1)

(* How many low bits of n < 2^31 do not fit in the significand. *)
F32Excess(n) ==
    IF n < 2 ^ 27
    THEN IF n < 2 ^ 25 THEN (IF n < 2 ^ 24 THEN 0 ELSE 1)
         ELSE (IF n < 2 ^ 26 THEN 2 ELSE 3)
    ELSE IF n < 2 ^ 29 THEN (IF n < 2 ^ 28 THEN 4 ELSE 5)
         ELSE (IF n < 2 ^ 30 THEN 6 ELSE 7)

(* The f32 nearest to n * 2^e (plus a non-zero amount below the last bit   *)
(* of n when sticky), ties to even.                                        *)
F32Round(n, e, sticky) ==
    IF n = 0 THEN F32Zero
    ELSE IF n < F32Full THEN F32Normal(n, e)
    ELSE LET d == F32Excess(n)
             q == n \div 2 ^ d
             r == n % 2 ^ d
             half == 2 ^ (d - 1)
             up == r > half \/ (r = half /\ (sticky \/ q % 2 = 1))
             q1 == IF up THEN q + 1 ELSE q
         IN  IF q1 = F32Full THEN [m |-> F32Half, e |-> e + d + 1]
             ELSE [m |-> q1, e |-> e + d]

(* `k as f32` for a usize k, and a whole pixel as f32. *)
F32From(k) == F32Round(k, 0, FALSE)

(* a + b *)
F32Add(a, b) ==
    IF a.m = 0 THEN b
    ELSE IF b.m = 0 THEN a
    ELSE LET hi == IF a.e >= b.e THEN a ELSE b
             lo == IF a.e >= b.e THEN b ELSE a
             d == hi.e - lo.e
             s == IF d - 6 > 24 THEN 25 ELSE d - 6
         IN  IF d <= 6 THEN F32Round(hi.m * 2 ^ d + lo.m, lo.e, FALSE)
             ELSE F32Round(hi.m * 64 + lo.m \div 2 ^ s, hi.e - 6, lo.m % 2 ^ s # 0)

(* a * (k as f32), for k < 128 *)
F32MulInt(a, k) == F32Round(a.m * k, a.e, FALSE)

(* a / b, by long division, seven bits of the quotient at a time *)
F32Div(a, b) ==
    IF a.m = 0 THEN F32Zero
    ELSE LET q0 == a.m \div b.m
             r0 == a.m % b.m
             q1 == q0 * 128 + (r0 * 128) \div b.m
             r1 == (r0 * 128) % b.m
             q2 == q1 * 128 + (r1 * 128) \div b.m
             r2 == (r1 * 128) % b.m
             q3 == q2 * 128 + (r2 * 128) \div b.m
             r3 == (r2 * 128) % b.m
             q4 == q3 * 128 + (r3 * 128) \div b.m
             r4 == (r3 * 128) % b.m
         IN  F32Round(q4, a.e - b.e - 28, r4 # 0)

(* a.floor() as an integer *)
F32Floor(a) ==
    IF a.e >= 0 THEN a.m * 2 ^ a.e
    ELSE IF a.e < -30 THEN 0
    ELSE a.m \div 2 ^ (0 - a.e)

(* a is not a whole number *)
F32Fraction(a) ==
    /\ a.e < 0
    /\ IF a.e < -30 THEN a.m # 0 ELSE a.m % 2 ^ (0 - a.e) # 0

(* self.gap and self.padding are f32 fields *)
gap_f32 == F32From(gap)
padding_f32 == F32From(padding)

(* comparisons of a whole pixel m with an f32 a *)
F32PixelLeq(m, a) == m <= F32Floor(a)
F32PixelLt(m, a) == m < F32Floor(a) \/ (m = F32Floor(a) /\ F32Fraction(a))
F32PixelEq(m, a) == m = F32Floor(a) /\ ~F32Fraction(a)

(* ---------------- CellType, CellState, Cell ---------------- *)
Mine == [tag |-> "Mine"]
Empty == [tag |-> "Empty"]
Number(n) == [tag |-> "Number", n |-> n]

Visible == "Visible"
Hidden == "Hidden"

Cell(cell_type, cell_state) == [cell_type |-> cell_type, cell_state |-> cell_state]

(* update_state rebuilding the cell as Cell::new(Empty, cell_state). *)
update_stateRetype(cell, cell_state) == [cell_type |-> [tag |-> "Empty"], cell_state |-> cell_state]

update_state(cell, cell_state) == [cell EXCEPT !.cell_state = cell_state]

Rows == 0 .. (y_cells - 1)
Cols == 0 .. (x_cells - 1)
Positions == Rows \X Cols

(* A write state[r][c].cell_type = t. *)
SetType(st, r, c, t) == [st EXCEPT ![r][c].cell_type = t]

(* A call state[r][c].update_state(s). *)
SetState(st, r, c, s) == [st EXCEPT ![r][c] = update_state(st[r][c], s)]

(* ---------------- usize helpers ---------------- *)
saturating_sub(a, b) == IF a >= b THEN a - b ELSE 0

div_ceil(a, b) == (a + b - 1) \div b

Min(a, b) == IF a <= b THEN a ELSE b

(* ---------------- Board::new ---------------- *)

(* The closure of line 73: flattened index -> (row, col). *)
mine_position(i) == <<saturating_sub(div_ceil(i, x_cells), 1), i % x_cells>>

(* The indexing state[x][y] of lines 77 and 88: does it stay inside the Vecs? *)
InVec(x, y) == x \in Rows /\ y \in Cols

(* Increment without the Mine arm: a mine is counted like an Empty cell. *)
IncrementOverMine(st, x, y) ==
    LET t == st[x][y].cell_type IN
    IF t = Mine \/ t = Empty THEN SetType(st, x, y, Number(1))
    ELSE SetType(st, x, y, Number(t.n + 1))

(* The match of lines 88..96 on one cell. *)
Increment(st, x, y) ==
    LET t == st[x][y].cell_type IN
    IF t = Mine THEN st
    ELSE IF t = Empty THEN SetType(st, x, y, Number(1))
    ELSE SetType(st, x, y, Number(t.n + 1))

x_upper(x) == IF x + 1 >= y_cells THEN x ELSE x + 1
x_lower(x) == saturating_sub(x, 1)
y_upper(y) == IF y + 1 >= y_cells THEN y ELSE y + 1
y_lower(y) == saturating_sub(y, 1)

(* The nested loops of lines 86..98, visiting the k-th cell of the block    *)
(* x_lower..=x_upper by y_lower..=y_upper in row-major order.  An index    *)
(* outside the Vecs panics: ok becomes FALSE and the loop stops there.     *)
RECURSIVE NumberLoop(_, _, _, _)
NumberLoop(st, x, y, k) ==
    LET w == y_upper(y) - y_lower(y) + 1
        h == x_upper(x) - x_lower(x) + 1
        cx == x_lower(x) + (k \div w)
        cy == y_lower(y) + (k % w)
    IN  IF k >= w * h THEN [st |-> st, ok |-> TRUE]
        ELSE IF ~InVec(cx, cy) THEN [st |-> st, ok |-> FALSE]
        ELSE NumberLoop(Increment(st, cx, cy), x, y, k + 1)

(* One iteration of the loop of lines 75..99 for the sampled index i. *)
ProcessMine(st, i) ==
    LET pos == mine_position(i)
        x == pos[1]
        y == pos[2]
    IN  IF ~InVec(x, y) THEN [st |-> st, ok |-> FALSE]
        ELSE NumberLoop(SetType(st, x, y, Mine), x, y, 0)

(* The window of the program is 800 px wide for 16 columns: its tiles       *)
(* (48.875 px) are wider than the padding (2 px).  The scaled-down windows *)
(* of the model keep that: tile_width >= padding.                          *)
TileCoversPadding(cols, width) == width - padding - gap * cols >= padding * cols

NoClick == [kind |-> "none", row |-> 0, col |-> 0, negative |-> FALSE,
            beyond |-> FALSE]

NothingShown == [drawn_gap |-> FALSE, corner |-> <<>>]

(* Board::new is entered: the grid is all Empty and Hidden (lines 63..64)  *)
(* and index::sample has returned `mines` distinct indices (line 68).     *)
Init ==
    /\ x_cells \in 1 .. MaxCols
    /\ y_cells \in 1 .. MaxRows
    /\ x_cells * y_cells <= MaxCells
    /\ screen_width = ScreenWidth
    /\ TileCoversPadding(x_cells, screen_width)
    /\ mines \in 0 .. Min(MaxMines, x_cells * y_cells)
    /\ sampled \in {s \in SUBSET (0 .. (x_cells * y_cells - 1)) : Cardinality(s) = mines}
    /\ pending = sampled
    /\ state = [r \in Rows |-> [c \in Cols |-> Cell(Empty, Hidden)]]
    /\ tile_width = F32Zero
    /\ pc = "new"
    /\ queue = <<>>
    /\ visited = {}
    /\ last = NoClick
    /\ shown = NothingShown
    /\ prev = state
    /\ clicks = 0

(* The mine loop takes the next sampled index, in whatever order the       *)
(* sampler produced them.                                                  *)
PlaceMine ==
    /\ pc = "new"
    /\ \E i \in pending :
          LET res == ProcessMine(state, i) IN
          /\ state' = res.st
          /\ pending' = pending \ {i}
          /\ pc' = IF res.ok THEN "new" ELSE "panic"
    /\ prev' = state'
    /\ UNCHANGED <<x_cells, y_cells, tile_width, screen_width, mines, sampled,
                   queue, visited, last, shown, clicks>>

(* Lines 101..108: the Board is returned, tile_width computed. *)
NewReturn ==
    /\ pc = "new"
    /\ pending = {}
    /\ tile_width' = F32Div(F32From(screen_width - padding - gap * x_cells),
                             F32From(x_cells))
    /\ pc' = "play"
    /\ UNCHANGED <<x_cells, y_cells, state, screen_width, mines, sampled,
                   pending, queue, visited, last, shown, prev, clicks>>

(* ---------------- Board::draw: where the tiles are painted ---------------- *)

(* Lines 114..115: the left (top) edge of column (row) k is                *)
(* padding + k as f32 * (gap + tile_width).                                *)
DrawOrigin(k) ==
    F32Add(padding_f32, F32MulInt(F32Add(gap_f32, tile_width), k))

(* The right (bottom) edge of the painted tile k: draw_rectangle is given  *)
(* the origin and tile_width (lines 119..129) and adds them in f32.        *)
DrawEnd(k) == F32Add(DrawOrigin(k), tile_width)

(* ---------------- Board::update and what it calls ---------------- *)

(* PointerIndex with the quotient rounded up instead of down. *)
PointerIndexCeil(m) ==
    IF m < 0 THEN 0
    ELSE LET q == F32Div(F32From(m), F32Add(tile_width, gap_f32))
         IN  IF F32Fraction(q) THEN F32Floor(q) + 1 ELSE F32Floor(q)

(* Lines 220..221: (m / (tile_width + gap)).floor() as usize.  The cast    *)
(* saturates: the negative quotient of a negative coordinate becomes 0.    *)
PointerIndex(m) ==
    IF m < 0 THEN 0
    ELSE F32Floor(F32Div(F32From(m), F32Add(tile_width, gap_f32)))

(* One axis of on_gap, line 146 (147):                                     *)
(* m <= tile_width * (k as f32 + 1.0) + gap * k as f32.                    *)
WithinTile(m, k) ==
    F32PixelLeq(m, F32Add(F32MulInt(tile_width, k + 1), F32MulInt(gap_f32, k)))

on_gap(col, row, mouse_pos) ==
    ~WithinTile(mouse_pos[1], col) \/ ~WithinTile(mouse_pos[2], row)

(* is_valid without the match on the cell type. *)
is_validAnyType(row, col) ==
    /\ row >= 0
    /\ col >= 0
    /\ row < y_cells
    /\ col < x_cells

(* The closure is_valid of lines 160..169. *)
is_valid(row, col) ==
    /\ row >= 0
    /\ col >= 0
    /\ row < y_cells
    /\ col < x_cells
    /\ state[row][col].cell_type # Mine

(* neighbors without the cell below. *)
neighborsNoDown(row, col) ==
    LET indices == << <<row, col - 1>>, <<row, col + 1>>, <<row - 1, col>> >>
        Valid(p) == is_valid(p[1], p[2])
    IN  SelectSeq(indices, Valid)

neighbors(row, col) ==
    LET indices == << <<row, col - 1>>, <<row, col + 1>>, <<row - 1, col>>, <<row + 1, col>> >>
        Valid(p) == is_valid(p[1], p[2])
    IN  SelectSeq(indices, Valid)

(* VisitNeighbors with the Number arm also pushing the neighbour. *)
RECURSIVE VisitNeighborsPushNumber(_, _, _, _, _)
VisitNeighborsPushNumber(st, q, vis, ns, k) ==
    IF k > Len(ns) THEN [st |-> st, queue |-> q, ok |-> TRUE]
    ELSE LET n == ns[k]
             t == st[n[1]][n[2]].cell_type
         IN  IF n \in vis THEN VisitNeighborsPushNumber(st, q, vis, ns, k + 1)
             ELSE IF t = Empty THEN VisitNeighborsPushNumber(st, Append(q, n), vis, ns, k + 1)
             ELSE IF t = Mine THEN [st |-> st, queue |-> q, ok |-> FALSE]
             ELSE VisitNeighborsPushNumber(SetState(st, n[1], n[2], Visible),
                                           Append(q, n), vis, ns, k + 1)

(* VisitNeighbors without the `visited` test of line 196. *)
RECURSIVE VisitNeighborsNoVisited(_, _, _, _, _)
VisitNeighborsNoVisited(st, q, vis, ns, k) ==
    IF k > Len(ns) THEN [st |-> st, queue |-> q, ok |-> TRUE]
    ELSE LET n == ns[k]
             t == st[n[1]][n[2]].cell_type
         IN  IF t = Empty THEN VisitNeighborsNoVisited(st, Append(q, n), vis, ns, k + 1)
             ELSE IF t = Mine THEN [st |-> st, queue |-> q, ok |-> FALSE]
             ELSE VisitNeighborsNoVisited(SetState(st, n[1], n[2], Visible), q, vis, ns, k + 1)

(* The for loop of lines 193..207 over the neighbours ns[k..], with the    *)
(* grid and the queue built so far.  The Mine arm panics.                  *)
RECURSIVE VisitNeighbors(_, _, _, _, _)
VisitNeighbors(st, q, vis, ns, k) ==
    IF k > Len(ns) THEN [st |-> st, queue |-> q, ok |-> TRUE]
    ELSE LET n == ns[k]
             t == st[n[1]][n[2]].cell_type
         IN  IF n \in vis THEN VisitNeighbors(st, q, vis, ns, k + 1)
             ELSE IF t = Empty THEN VisitNeighbors(st, Append(q, n), vis, ns, k + 1)
             ELSE IF t = Mine THEN [st |-> st, queue |-> q, ok |-> FALSE]
             ELSE VisitNeighbors(SetState(st, n[1], n[2], Visible), q, vis, ns, k + 1)

(* reveal_all showing the mines only. *)
reveal_allMinesOnly(st) ==
    [r \in Rows |-> [c \in Cols |->
        IF st[r][c].cell_type = Mine THEN update_state(st[r][c], Visible) ELSE st[r][c]]]

(* reveal_all, lines 211..217. *)
reveal_all(st) == [r \in Rows |-> [c \in Cols |-> update_state(st[r][c], Visible)]]

(* What the pointer position is, as draw and the grid see it. *)
IsNegative(mouse_pos) == mouse_pos[1] < 0 \/ mouse_pos[2] < 0

InTileSpan(m, n) == \E k \in 0 .. (n - 1) :
    ~F32PixelLt(m, DrawOrigin(k)) /\ F32PixelLeq(m, DrawEnd(k))

InGapSpan(m, n) == \E k \in 0 .. (n - 2) :
    ~F32PixelLeq(m, DrawEnd(k)) /\ F32PixelLt(m, DrawOrigin(k + 1))

(* What draw paints along one axis of n tiles at the coordinate m: a      *)
(* tile, the gap between two tiles, the origin of which tile.              *)
DrawnAlong(m, n) ==
    [m |-> m,
     tile |-> InTileSpan(m, n),
     gap |-> InGapSpan(m, n),
     origin |-> {k \in 0 .. (n - 1) : F32PixelEq(m, DrawOrigin(k))}]

(* The point lies in a gap between two painted tiles. *)
DrawnGap(px, py) == (px.gap /\ py.tile) \/ (py.gap /\ px.tile)

(* The tile whose top-left corner the point is, as <<row, col>>. *)
DrawnCorner(px, py) ==
    IF px.origin = {} \/ py.origin = {} THEN <<>>
    ELSE <<CHOOSE r \in py.origin : TRUE, CHOOSE c \in px.origin : TRUE>>

Shown(px, py) == [drawn_gap |-> DrawnGap(px, py), corner |-> DrawnCorner(px, py)]

InDrawnGap(mouse_pos) ==
    DrawnGap(DrawnAlong(mouse_pos[1], x_cells), DrawnAlong(mouse_pos[2], y_cells))

CornerOf(mouse_pos) ==
    DrawnCorner(DrawnAlong(mouse_pos[1], x_cells), DrawnAlong(mouse_pos[2], y_cells))

(* Pointer positions: the pixels of the window, one negative coordinate    *)
(* and the first coordinate past the window.                               *)
MouseCoords == (-1) .. ScreenWidth

Click(kind, row, col, mouse_pos) ==
    [kind |-> kind, row |-> row, col |-> col,
     negative |-> IsNegative(mouse_pos),
     beyond |-> (row >= y_cells \/ col >= x_cells)]

(* Which branch of lines 223..239 the click takes. *)
ClickKind(col, row, mouse_pos) ==
    IF on_gap(col, row, mouse_pos) THEN "gap"
    ELSE IF row >= y_cells THEN "panic"
    ELSE IF col >= x_cells THEN "range"
    ELSE IF state[row][col].cell_state = Visible THEN "visible"
    ELSE state[row][col].cell_type.tag

(* update with the Visible arm hiding the cell again. *)
updateToggle(mouse_pos) ==
    \E col \in {PointerIndex(mouse_pos[1])}, row \in {PointerIndex(mouse_pos[2])} :
    \E kind \in {ClickKind(col, row, mouse_pos)} :
        /\ last' = Click(kind, row, col, mouse_pos)
        /\ prev' = state
        /\ clicks' = clicks + 1
        /\ state' = CASE kind = "Number" -> SetState(state, row, col, Visible)
                      [] kind = "Mine" -> reveal_all(SetState(state, row, col, Visible))
                      [] kind = "Empty" -> SetState(state, row, col, Visible)
                      [] kind = "visible" -> SetState(state, row, col, Hidden)
                      [] OTHER -> state
        /\ pc' = CASE kind = "panic" -> "panic"
                   [] kind = "Empty" -> "bfs"
                   [] OTHER -> "play"
        /\ queue' = IF kind = "Empty" THEN << <<row, col>> >> ELSE <<>>
        /\ visited' = {}

(* update with the Number arm cascading like the Empty arm. *)
updateNumberCascades(mouse_pos) ==
    \E col \in {PointerIndex(mouse_pos[1])}, row \in {PointerIndex(mouse_pos[2])} :
    \E kind \in {ClickKind(col, row, mouse_pos)} :
        /\ last' = Click(kind, row, col, mouse_pos)
        /\ prev' = state
        /\ clicks' = clicks + 1
        /\ state' = CASE kind = "Number" -> SetState(state, row, col, Visible)
                      [] kind = "Mine" -> reveal_all(SetState(state, row, col, Visible))
                      [] kind = "Empty" -> SetState(state, row, col, Visible)
                      [] OTHER -> state
        /\ pc' = CASE kind = "panic" -> "panic"
                   [] kind \in {"Empty", "Number"} -> "bfs"
                   [] OTHER -> "play"
        /\ queue' = IF kind \in {"Empty", "Number"} THEN << <<row, col>> >> ELSE <<>>
        /\ visited' = {}

(* update with the Mine arm not calling reveal_all. *)
updateMineAlone(mouse_pos) ==
    \E col \in {PointerIndex(mouse_pos[1])}, row \in {PointerIndex(mouse_pos[2])} :
    \E kind \in {ClickKind(col, row, mouse_pos)} :
        /\ last' = Click(kind, row, col, mouse_pos)
        /\ prev' = state
        /\ clicks' = clicks + 1
        /\ state' = CASE kind = "Number" -> SetState(state, row, col, Visible)
                      [] kind = "Mine" -> SetState(state, row, col, Visible)
                      [] kind = "Empty" -> SetState(state, row, col, Visible)
                      [] OTHER -> state
        /\ pc' = CASE kind = "panic" -> "panic"
                   [] kind = "Empty" -> "bfs"
                   [] OTHER -> "play"
        /\ queue' = IF kind = "Empty" THEN << <<row, col>> >> ELSE <<>>
        /\ visited' = {}

(* Board::update up to the point where it returns, panics or enters the    *)
(* loop of reveal_empty.                                                   *)
update(mouse_pos) ==
    \E col \in {PointerIndex(mouse_pos[1])}, row \in {PointerIndex(mouse_pos[2])} :
    \E kind \in {ClickKind(col, row, mouse_pos)} :
        /\ last' = Click(kind, row, col, mouse_pos)
        /\ prev' = state
        /\ clicks' = clicks + 1
        /\ state' = CASE kind = "Number" -> SetState(state, row, col, Visible)
                      [] kind = "Mine" -> reveal_all(SetState(state, row, col, Visible))
                      [] kind = "Empty" -> SetState(state, row, col, Visible)
                      [] OTHER -> state
        /\ pc' = CASE kind = "panic" -> "panic"
                   [] kind = "Empty" -> "bfs"
                   [] OTHER -> "play"
        /\ queue' = IF kind = "Empty" THEN << <<row, col>> >> ELSE <<>>
        /\ visited' = {}

Update ==
    /\ pc = "play"
    /\ clicks < MaxClicks
    /\ \E px \in {DrawnAlong(m, x_cells) : m \in MouseCoords},
          py \in {DrawnAlong(m, y_cells) : m \in MouseCoords} :
          /\ update(<<px.m, py.m>>)
          /\ shown' = Shown(px, py)
    /\ UNCHANGED <<x_cells, y_cells, tile_width, screen_width, mines, sampled, pending>>

(* One iteration of the while loop of reveal_empty, lines 186..208. *)
BfsStep ==
    /\ pc = "bfs"
    /\ queue # <<>>
    /\ LET pos == Head(queue)
           vis == visited \cup {pos}
           st == SetState(state, pos[1], pos[2], Visible)
           res == VisitNeighbors(st, Tail(queue), vis, neighbors(pos[1], pos[2]), 1)
       IN  /\ visited' = vis
           /\ state' = res.st
           /\ queue' = res.queue
           /\ pc' = IF res.ok THEN "bfs" ELSE "panic"
    /\ UNCHANGED <<x_cells, y_cells, tile_width, screen_width, mines, sampled,
                   pending, last, shown, prev, clicks>>

(* The queue is empty: reveal_empty and update return. *)
BfsDone ==
    /\ pc = "bfs"
    /\ queue = <<>>
    /\ pc' = "play"
    /\ visited' = {}
    /\ UNCHANGED <<x_cells, y_cells, tile_width, state, screen_width, mines,
                   sampled, pending, queue, last, shown, prev, clicks>>

Next == PlaceMine \/ NewReturn \/ Update \/ BfsStep \/ BfsDone

Spec == Init /\ [][Next]_vars

(* reveal_empty is a synchronous loop on the only thread: once entered it  *)
(* keeps taking its next iteration, and returns when the queue is empty.   *)
SpecFair == Spec /\ WF_vars(BfsStep) /\ WF_vars(BfsDone)

(* ---------------- Board::new alone, on dense boards ---------------- *)

(* Board::new is entered for a NewDim x NewDim board with NewMines mines,  *)
(* in a window whose tiles are as wide as the padding.  index::sample      *)
(* (line 68) has returned NewMines distinct indices of 0 .. x_cells *      *)
(* y_cells - 1 in an order of its own; nothing reads that vector but the   *)
(* loop of line 75, one index per iteration, so each index is drawn when   *)
(* the loop reads it.  Here `sampled` holds the indices read so far and    *)
(* `pending` stays empty.                                                  *)
InitNew ==
    /\ x_cells = NewDim
    /\ y_cells = NewDim
    /\ screen_width = (gap + padding) * x_cells + padding
    /\ mines = NewMines
    /\ sampled = {}
    /\ pending = {}
    /\ state = [r \in Rows |-> [c \in Cols |-> Cell(Empty, Hidden)]]
    /\ tile_width = F32Zero
    /\ pc = "new"
    /\ queue = <<>>
    /\ visited = {}
    /\ last = NoClick
    /\ shown = NothingShown
    /\ prev = state
    /\ clicks = 0

(* One iteration of the mine loop: the next index of the sampled vector is *)
(* any index the vector has not held yet.                                  *)
PlaceNextMine ==
    /\ pc = "new"
    /\ Cardinality(sampled) < mines
    /\ \E i \in (0 .. (x_cells * y_cells - 1)) \ sampled :
          LET res == ProcessMine(state, i) IN
          /\ state' = res.st
          /\ sampled' = sampled \cup {i}
          /\ pc' = IF res.ok THEN "new" ELSE "panic"
    /\ prev' = state'
    /\ UNCHANGED <<x_cells, y_cells, tile_width, screen_width, mines, pending,
                   queue, visited, last, shown, clicks>>

(* The loop has read the whole vector: the Board is returned. *)
NewReturnFull ==
    /\ Cardinality(sampled) = mines
    /\ NewReturn

NextNew == PlaceNextMine \/ NewReturnFull

SpecNew == InitNew /\ [][NextNew]_vars

(* ======================= properties ======================= *)

(* Board::new has returned. *)
Built == pc \in {"play", "bfs"} \/ clicks > 0

TypeAt(st, p) == st[p[1]][p[2]].cell_type
VisibleSet(st) == {p \in Positions : st[p[1]][p[2]].cell_state = Visible}
MineCells == {p \in Positions : TypeAt(state, p) = Mine}
IsNumber(t) == t.tag = "Number"

Abs(a) == IF a < 0 THEN -a ELSE a
Adjacent4(p, q) == Abs(p[1] - q[1]) + Abs(p[2] - q[2]) = 1
Adjacent8(p, q) == p # q /\ Abs(p[1] - q[1]) <= 1 /\ Abs(p[2] - q[2]) <= 1
MineNeighbours(p) == Cardinality({q \in MineCells : Adjacent8(p, q)})

(* The maximal set of Empty cells connected to the cells of S by           *)
(* up/down/left/right steps over Empty cells.                              *)
RECURSIVE EmptyRegion(_)
EmptyRegion(S) ==
    LET more == {p \in Positions : /\ TypeAt(state, p) = Empty
                                   /\ \E q \in S : Adjacent4(p, q)}
    IN  IF more \subseteq S THEN S ELSE EmptyRegion(S \cup more)

NumberBorder(R) == {p \in Positions : /\ IsNumber(TypeAt(state, p))
                                      /\ \E q \in R : Adjacent4(p, q)}

Clicked == <<last.row, last.col>>
OnCell == last.kind \in {"visible", "Number", "Mine", "Empty"}

(* C1: a built grid holds exactly `mines` cells of type Mine. *)
C1_MineCountEqualsRequested == Built => Cardinality(MineCells) = mines

(* C2: in a built grid every non-mine cell is Number(n) exactly when n >= 1 *)
(* of its 8 neighbours are mines, and Empty exactly when none is.          *)
C2_NumbersCountMineNeighbours ==
    Built => \A p \in Positions \ MineCells :
                LET n == MineNeighbours(p) IN
                TypeAt(state, p) = (IF n = 0 THEN Empty ELSE Number(n))

(* C3: once the reveal of a Hidden Empty cell c has returned, the Visible  *)
(* cells are those Visible before, the maximal 4-connected Empty region of *)
(* c, and the Number cells 4-adjacent to that region; nothing else.        *)
C3_FloodFillClosure ==
    (pc = "play" /\ last.kind = "Empty") =>
        LET R == EmptyRegion({Clicked}) IN
        VisibleSet(state) = VisibleSet(prev) \cup R \cup NumberBorder(R)

C3_Witness ==
    /\ pc = "play"
    /\ last.kind = "Empty"
    /\ Cardinality(EmptyRegion({Clicked})) >= 2
    /\ NumberBorder(EmptyRegion({Clicked})) # {}
    /\ VisibleSet(prev) \ (EmptyRegion({Clicked}) \cup NumberBorder(EmptyRegion({Clicked}))) # {}
    /\ VisibleSet(state) # Positions

(* C4: after the reveal of a Hidden Mine cell every cell is Visible. *)
C4_MineRevealsAll == last.kind = "Mine" => VisibleSet(state) = Positions

C4_Witness ==
    /\ last.kind = "Mine"
    /\ VisibleSet(prev) # {}
    /\ Cardinality(Positions \ VisibleSet(prev)) >= 3
    /\ VisibleSet(state) = Positions

(* C5: a click that maps to a cell that is already Visible changes no      *)
(* cell's type or visibility and returns.                                  *)
C5_VisibleClickNoOp == last.kind = "visible" => (state = prev /\ pc = "play")

C5_Witness ==
    /\ last.kind = "visible"
    /\ MineCells # {}
    /\ VisibleSet(prev) = Positions
    /\ Cardinality(Positions) >= 2
    /\ state = prev

(* C6: a click with a negative coordinate, or whose computed row or column *)
(* lies beyond the grid, completes normally and changes no visibility.     *)
C6_OutOfRangeClickNoOp ==
    (last.negative \/ last.beyond) =>
        (pc # "panic" /\ VisibleSet(state) = VisibleSet(prev))

(* C7: a click exactly on the top-left corner where draw paints tile       *)
(* (row, col) is mapped to cell (row, col).                                *)
C7_CornerMapsToTile == shown.corner # <<>> => (OnCell /\ Clicked = shown.corner)

C7_Witness ==
    /\ shown.corner # <<>>
    /\ shown.corner[1] >= 1
    /\ shown.corner[2] >= 1
    /\ OnCell
    /\ Clicked = shown.corner

(* C8: a click in the painted gap between two adjacent tiles reveals no    *)
(* cell and leaves the grid unchanged.                                     *)
C8_DrawnGapClickNoOp ==
    shown.drawn_gap => (pc # "panic" /\ VisibleSet(state) = VisibleSet(prev))

(* C9: the reveal of a Hidden Number cell makes that cell Visible and      *)
(* changes no other cell.                                                  *)
C9_NumberRevealsOnlyItself ==
    last.kind = "Number" =>
        /\ pc = "play"
        /\ prev[last.row][last.col].cell_state = Hidden
        /\ state = SetState(prev, last.row, last.col, Visible)

C9_Witness ==
    /\ last.kind = "Number"
    /\ VisibleSet(state) = VisibleSet(prev) \cup {Clicked}
    /\ Clicked \notin VisibleSet(prev)
    /\ \E p \in Positions \ VisibleSet(state) :
          Adjacent4(p, Clicked) /\ TypeAt(state, p) # Mine

(* C10: in a grid built with mines = 0 every cell is Empty, and once the   *)
(* reveal of any one cell has returned every cell is Visible.              *)
C10_NoMinesOneClickRevealsAll ==
    (Built /\ mines = 0) =>
        /\ \A p \in Positions : TypeAt(state, p) = Empty
        /\ (pc = "play" /\ clicks = 1 /\ OnCell) => VisibleSet(state) = Positions

C10_Witness ==
    /\ mines = 0
    /\ pc = "play"
    /\ clicks = 1
    /\ last.kind = "Empty"
    /\ x_cells >= 2
    /\ y_cells >= 3
    /\ Clicked = <<y_cells - 1, x_cells - 1>>
    /\ VisibleSet(state) = Positions

CellTypes(st) == [p \in Positions |-> TypeAt(st, p)]

(* C11: every cell is Hidden until the first click, and no step of any     *)
(* click turns a Visible cell Hidden again.                                *)
C11_HiddenThenMonotone ==
    /\ [](clicks = 0 => VisibleSet(state) = {})
    /\ [][VisibleSet(state) \subseteq VisibleSet(state)']_vars

C11_Witness ==
    /\ pc = "play"
    /\ clicks = 2
    /\ VisibleSet(prev) # {}
    /\ VisibleSet(prev) \subseteq VisibleSet(state)
    /\ VisibleSet(prev) # VisibleSet(state)
    /\ VisibleSet(state) # Positions

(* C12: once Board::new has returned, no step changes the type of a cell.  *)
C12_TypesFrozen == [][Built => CellTypes(state)' = CellTypes(state)]_vars

C12_Witness ==
    /\ pc = "play"
    /\ clicks = 2
    /\ state # prev
    /\ MineCells # {}
    /\ \E p \in VisibleSet(state) : IsNumber(TypeAt(state, p))
    /\ \E p \in VisibleSet(state) : TypeAt(state, p) = Empty

(* C13: the mine of every processed index i is placed at                   *)
(* (i / x_cells, i % x_cells), floor division.                             *)
C13_FloorDivisionPosition ==
    \A i \in sampled \ pending :
        /\ mine_position(i) = <<i \div x_cells, i % x_cells>>
        /\ pc # "panic" => TypeAt(state, <<i \div x_cells, i % x_cells>>) = Mine

(* C14: while reveal_empty runs, no position is in the queue twice and no  *)
(* position that was already dequeued is in the queue.                     *)
C14_EnqueuedAtMostOnce ==
    pc = "bfs" =>
        /\ \A i, j \in 1 .. Len(queue) : queue[i] = queue[j] => i = j
        /\ \A i \in 1 .. Len(queue) : queue[i] \notin visited

(* C15: every flood fill that was started terminates: reveal_empty leaves  *)
(* its loop and update returns.                                            *)
C15_FloodFillTerminates == (pc = "bfs") ~> (pc = "play" /\ queue = <<>>)

C15_Witness ==
    /\ pc = "play"
    /\ last.kind = "Empty"
    /\ Cardinality(EmptyRegion({Clicked})) >= 4
    /\ x_cells >= 2
    /\ y_cells >= 2
    /\ EmptyRegion({Clicked}) \subseteq VisibleSet(state)

(* C16: in a built grid every Number(n) cell has 1 <= n <= 8. *)
C16_NumberBetween1And8 ==
    Built => \A p \in Positions :
                IsNumber(TypeAt(state, p)) =>
                    (1 <= TypeAt(state, p).n /\ TypeAt(state, p).n <= 8)

(* C17: a flood fill never reaches a Mine cell: the queue never holds one  *)
(* and no click on an Empty cell ends in the panic of line 203.            *)
C17_MineArmUnreachable ==
    /\ ~(pc = "panic" /\ last.kind = "Empty")
    /\ \A i \in 1 .. Len(queue) : TypeAt(state, queue[i]) # Mine

C17_Witness ==
    /\ pc = "play"
    /\ last.kind = "Empty"
    /\ \E p \in EmptyRegion({Clicked}) : \E q \in MineCells : Adjacent4(p, q)
    /\ MineCells \cap VisibleSet(state) = {}

(* The grid Board::new builds from the all-Empty grid st when it processes *)
(* the indices of S in ascending order.                                    *)
RECURSIVE BuildAscending(_, _)
BuildAscending(st, S) ==
    IF S = {} THEN st
    ELSE LET i == CHOOSE j \in S : \A k \in S : j <= k
         IN  BuildAscending(ProcessMine(st, i).st, S \ {i})

AllEmptyGrid == [r \in Rows |-> [c \in Cols |-> Cell(Empty, Hidden)]]

(* C18: whatever the order in which the mine loop took the sampled         *)
(* indices, the cell types of the returned grid are those obtained from    *)
(* the same indices in ascending order.                                    *)
C18_OrderIndependent ==
    (pc = "play" /\ clicks = 0) =>
        CellTypes(state) = CellTypes(BuildAscending(AllEmptyGrid, sampled))

C18_Witness ==
    /\ pc = "play"
    /\ clicks = 0
    /\ Cardinality(MineCells) = 2
    /\ \E p, q \in MineCells : Adjacent8(p, q)
    /\ \E p \in Positions : TypeAt(state, p) = Number(2)

(* C19: in a built grid a Visible mine means the whole grid is Visible,    *)
(* and a click on an Empty or Number cell makes no Mine cell Visible.      *)
C19_VisibleMineMeansLoss ==
    Built =>
        /\ (MineCells \cap VisibleSet(state) # {}) => VisibleSet(state) = Positions
        /\ last.kind \in {"Empty", "Number"} =>
               MineCells \cap VisibleSet(state) = MineCells \cap VisibleSet(prev)

C19_Witness ==
    /\ pc = "play"
    /\ clicks = 2
    /\ last.kind = "Number"
    /\ \E q \in MineCells : Adjacent4(Clicked, q)
    /\ \E p \in VisibleSet(prev) : TypeAt(state, p) = Empty
    /\ MineCells \cap VisibleSet(state) = {}

(* C20: the numbering loop of Board::new never indexes outside the grid,   *)
(* and every in-bounds neighbour of a processed mine has been visited (it  *)
(* is a Mine or a Number, no longer Empty).                                *)
C20_NumberingCoversNeighbours ==
    /\ ~(pc = "panic" /\ clicks = 0)
    /\ \A i \in sampled \ pending :
          \A p \in Positions :
              Adjacent8(p, mine_position(i)) => TypeAt(state, p) # Empty
====
